---- MODULE Spec2Model ----
(***************************************************************************)
(* Model of portfolio_builder.py: module start-up (API key check), the     *)
(* fetcher get_all_stock_data, the exporter save_to_excel and main.        *)
(* One process run is: start-up, then one top-level call (main, or a       *)
(* direct call of the fetcher or of the exporter by an importing caller).  *)
(***************************************************************************)
EXTENDS Integers, Sequences, FiniteSets, TLC

VARIABLES pc, API_KEY, caller, args, passed, requests, resp, fetched,
          saveCalls, saved, log

vars == <<pc, API_KEY, caller, args, passed, requests, resp, fetched,
          saveCalls, saved, log>>

(* ------------------------------ bounds --------------------------------- *)
\* longest scores mapping a caller passes
MaxScores == 2
\* largest small integer tried as limit (besides the default)
MaxLimit == 2
\* a file name is built from at most this many pieces
MaxPieces == 3

(* --------------------------- Python values ----------------------------- *)
\* A Python value: its type, its integer value (int, bool) and its text (str).
PyNone == [type |-> "NoneType", n |-> 0, s |-> ""]
PyInt(i) == [type |-> "int", n |-> i, s |-> ""]
PyBool(b) == [type |-> "bool", n |-> IF b THEN 1 ELSE 0, s |-> ""]
PyFloat(t) == [type |-> "float", n |-> 0, s |-> t]
PyStr(t) == [type |-> "str", n |-> 0, s |-> t]

\* bool(v) for the values above (floats here are all non-zero)
PyTruthy(v) ==
    CASE v.type = "NoneType" -> FALSE
      [] v.type \in {"int", "bool"} -> v.n # 0
      [] v.type = "str" -> v.s # ""
      [] OTHER -> TRUE

\* isinstance(v, int): bool is a subclass of int
isinstance_int(v) == v.type \in {"int", "bool"}

(* ----------------------------- JSON values ----------------------------- *)
\* A parsed JSON value: its kind and its size (length of a list, object or
\* string; the number itself for a number; 0/1 for false/true).
JNull == [type |-> "null", size |-> 0]
JVal(t, k) == [type |-> t, size |-> k]
NoValue == [type |-> "none", size |-> 0]

\* bool(v) of a parsed JSON value
JTruthy(v) == v.type # "null" /\ v.size # 0

\* response body texts the server may send; "<html>" and "" are not JSON
Bodies == {"null", "[]", "{}", "[{\"t\":1}]", "{\"t\":[1]}", "0", "false", "<html>", ""}

\* json.loads: which texts parse
JsonParses(b) == b \notin {"<html>", ""}

\* json.loads: the value of a text that parses
ParseJson(b) ==
    CASE b = "null" -> JNull
      [] b = "[]" -> JVal("list", 0)
      [] b = "{}" -> JVal("dict", 0)
      [] b = "[{\"t\":1}]" -> JVal("list", 1)
      [] b = "{\"t\":[1]}" -> JVal("dict", 1)
      [] b = "0" -> JVal("int", 0)
      [] b = "false" -> JVal("bool", 0)
      [] OTHER -> NoValue

(* ------------------------------ start-up ------------------------------- *)
\* values of the environment variable DANELFIN_API_KEY (None when unset)
EnvKeys == {PyNone, PyStr(""), PyStr("k3y")}

BASE_URL == "https://apirest.danelfin.com/ranking"

Line(level, msg) == [level |-> level, msg |-> msg]

NoArgs == [market |-> PyNone, limit |-> PyNone, date |-> PyNone,
           ticker |-> PyNone, scores |-> <<>>, hasScores |-> FALSE]
NoResp == [kind |-> "none", status |-> 0, ctype |-> "", body |-> ""]
NoFetch == [kind |-> "none", value |-> NoValue, exc |-> "none"]
NoSave == [kind |-> "none", name |-> <<>>, exc |-> "none",
           base |-> [type |-> "NoneType", chars |-> <<>>],
           time |-> [Y |-> 0, m |-> 0, d |-> 0, H |-> 0, M |-> 0, S |-> 0],
           data |-> NoValue]

Init ==
    /\ pc = "startup"
    /\ API_KEY = PyNone
    /\ caller = "none"
    /\ args = NoArgs
    /\ passed = <<>>
    /\ requests = <<>>
    /\ resp = NoResp
    /\ fetched = NoFetch
    /\ saveCalls = 0
    /\ saved = NoSave
    /\ log = <<>>

\* lines 16-21: read the key, fail fast when it is absent or empty
Startup ==
    /\ pc = "startup"
    /\ \E k \in EnvKeys :
         /\ API_KEY' = k
         /\ pc' = IF ~PyTruthy(k) THEN "crashed" ELSE "idle"
    /\ UNCHANGED <<caller, args, passed, requests, resp, fetched, saveCalls, saved, log>>

(* ------------------------ get_all_stock_data --------------------------- *)
\* the check written with "is None": an empty string counts as set
DateOrTickerMissing_IsNone(date, ticker) == date = PyNone /\ ticker = PyNone

\* line 37: neither date nor ticker is set (None and "" are both falsy)
DateOrTickerMissing(date, ticker) == ~PyTruthy(date) /\ ~PyTruthy(ticker)

\* line 40
valid_markets == {PyStr("USA"), PyStr("europe")}

\* the comparison made case-insensitive
MarketInvalid_AnyCase(market) ==
    market \notin valid_markets \cup {PyStr("usa"), PyStr("Europe"), PyStr("EUROPE")}

\* line 41: list membership compares with ==, exactly
MarketInvalid(market) == market \notin valid_markets

\* line 43: the int test comes first, the comparison only for ints and bools
LimitInvalid(limit) == ~isinstance_int(limit) \/ limit.n <= 0

\* line 51
score_types == {"aiscore", "fundamental", "technical", "sentiment"}

\* line 51
ScoreKeyInvalid(key) == key \notin score_types

\* line 53
ScoreValueInvalid(value) == ~(1 <= value /\ value <= 10)

\* the loop left after its first entry
ScoresInvalid_FirstOnly(scores) ==
    IF scores = <<>> THEN FALSE
    ELSE ScoreKeyInvalid(Head(scores).key) \/ ScoreValueInvalid(Head(scores).value)

\* lines 50-55: the entries are checked in the mapping's order; the first
\* failing entry raises
RECURSIVE ScoresInvalid(_)
ScoresInvalid(scores) ==
    IF scores = <<>> THEN FALSE
    ELSE IF ScoreKeyInvalid(Head(scores).key) THEN TRUE
    ELSE IF ScoreValueInvalid(Head(scores).value) THEN TRUE
    ELSE ScoresInvalid(Tail(scores))

\* the request sent before the scores are looked at
Validate_BeforeScores(a) ==
    IF DateOrTickerMissing(a.date, a.ticker)
      THEN [passed |-> <<>>, exc |-> "ValueError"]
    ELSE IF MarketInvalid(a.market)
      THEN [passed |-> <<"date_or_ticker">>, exc |-> "ValueError"]
    ELSE IF LimitInvalid(a.limit)
      THEN [passed |-> <<"date_or_ticker", "market">>, exc |-> "ValueError"]
    ELSE [passed |-> <<"date_or_ticker", "market", "limit">>, exc |-> "none"]

\* lines 37-55: the checks in order; passed lists the checks that were passed
\* before the first failure (all four when none fails)
Validate(a) ==
    IF DateOrTickerMissing(a.date, a.ticker)
      THEN [passed |-> <<>>, exc |-> "ValueError"]
    ELSE IF MarketInvalid(a.market)
      THEN [passed |-> <<"date_or_ticker">>, exc |-> "ValueError"]
    ELSE IF LimitInvalid(a.limit)
      THEN [passed |-> <<"date_or_ticker", "market">>, exc |-> "ValueError"]
    ELSE IF a.hasScores /\ a.scores # <<>> /\ ScoresInvalid(a.scores)
      THEN [passed |-> <<"date_or_ticker", "market", "limit">>, exc |-> "ValueError"]
    ELSE [passed |-> <<"date_or_ticker", "market", "limit", "scores">>, exc |-> "none"]

\* lines 46-47, 55, 58: the GET that is sent
Request(a, key) ==
    [url |-> BASE_URL, x_api_key |-> key.s, market |-> a.market, limit |-> a.limit,
     date |-> a.date, ticker |-> a.ticker, scores |-> a.scores]

\* lines 37-58: a call of the fetcher up to the point where it blocks in
\* requests.get; a validation error is raised to the caller
FetchCall(a, who, lines) ==
    LET v == Validate(a) IN
    /\ caller' = who
    /\ args' = a
    /\ passed' = v.passed
    /\ log' = lines
    /\ IF v.exc # "none"
         THEN /\ fetched' = [kind |-> "raise", value |-> NoValue, exc |-> v.exc]
              /\ requests' = requests
              /\ pc' = "done"
         ELSE /\ fetched' = fetched
              /\ requests' = Append(requests, Request(a, API_KEY))
              /\ pc' = "fetch_wait"
    /\ UNCHANGED <<API_KEY, resp, saveCalls, saved>>

(* inputs of a direct call *)
Markets == {PyStr("USA"), PyStr("europe"), PyStr("usa"), PyStr("asia"), PyNone}
DefaultLimit == 100
Limits == {PyInt(i) : i \in (-1 .. MaxLimit) \cup {DefaultLimit}}
            \cup {PyBool(TRUE), PyBool(FALSE), PyFloat("1.5"), PyStr("10"), PyNone}
Dates == {PyNone, PyStr(""), PyStr("2024-01-02")}
Tickers == {PyNone, PyStr(""), PyStr("AAPL")}
ScoreKeys == {"aiscore", "sentiment", "momentum"}
ScoreValues == {0, 1, 10, 11}
ScoreEntries == [key : ScoreKeys, value : ScoreValues]
\* a dict has distinct keys; its items come in insertion order
ScoreMappings ==
    {m \in UNION {[1 .. k -> ScoreEntries] : k \in 0 .. MaxScores} :
        \A i, j \in DOMAIN m : i # j => m[i].key # m[j].key}
FetchArgs ==
    [market : Markets, limit : Limits, date : Dates, ticker : Tickers,
     scores : ScoreMappings, hasScores : {TRUE}]
      \cup [market : Markets, limit : Limits, date : Dates, ticker : Tickers,
            scores : {<<>>}, hasScores : {FALSE}]

\* a caller that imported the module calls get_all_stock_data
DirectFetch ==
    /\ pc = "idle"
    /\ \E a \in FetchArgs : FetchCall(a, "direct", log)

(* the HTTP exchange *)
Statuses == {200, 201, 204, 304, 404, 500}
ContentTypes == {"application/json", "application/json; charset=utf-8", "text/html", "<absent>"}
Responses ==
    [kind : {"response"}, status : Statuses, ctype : ContentTypes, body : Bodies]
      \cup {[kind |-> "network_error", status |-> 0, ctype |-> "<absent>", body |-> ""]}

\* only server errors raised
raise_for_status_5xx(status) == status >= 500 /\ status < 600

\* line 59: raise_for_status raises HTTPError for 4xx and 5xx
raise_for_status(status) == status >= 400 /\ status < 600

\* line 60
IsJsonHeader(ctype) == ctype = "application/json"

\* lines 58-68: the outcome of the call for response r. A body that does not
\* parse makes response.json() raise; jsonErrCaught says whether the installed
\* requests raises it as a RequestException (caught at line 66) or as a plain
\* JSONDecodeError (not caught).
FetchOutcome(r, jsonErrCaught) ==
    IF r.kind = "network_error" \/ raise_for_status(r.status)
      THEN [kind |-> "return", value |-> JNull, exc |-> "none",
            lines |-> <<Line("ERROR", "Error fetching data")>>]
    ELSE IF IsJsonHeader(r.ctype)
      THEN IF JsonParses(r.body)
             THEN [kind |-> "return", value |-> ParseJson(r.body), exc |-> "none",
                   lines |-> <<Line("INFO", "Data fetched successfully.")>>]
           ELSE IF jsonErrCaught
             THEN [kind |-> "return", value |-> JNull, exc |-> "none",
                   lines |-> <<Line("INFO", "Data fetched successfully."),
                               Line("ERROR", "Error fetching data")>>]
           ELSE [kind |-> "raise", value |-> NoValue, exc |-> "JSONDecodeError",
                 lines |-> <<Line("INFO", "Data fetched successfully.")>>]
    ELSE [kind |-> "return", value |-> JNull, exc |-> "none",
          lines |-> <<Line("ERROR", "Unexpected response format.")>>]

\* lines 58-68: requests.get returns or raises and the fetcher finishes
FetchResponse ==
    /\ pc = "fetch_wait"
    /\ \E r \in Responses, jsonErrCaught \in BOOLEAN :
         LET o == FetchOutcome(r, jsonErrCaught) IN
         /\ resp' = r
         /\ fetched' = [kind |-> o.kind, value |-> o.value, exc |-> o.exc]
         /\ log' = log \o o.lines
         /\ pc' = IF caller = "main" /\ o.kind = "return" THEN "main_branch" ELSE "done"
    /\ UNCHANGED <<API_KEY, caller, args, passed, requests, saveCalls, saved>>

(* ---------------------------- save_to_excel ---------------------------- *)
\* Text is a sequence of one-character strings.
dot_xlsx == <<".", "x", "l", "s", "x">>

\* the default of the filename parameter (line 70): "stocks_data.xlsx"
default_filename ==
    <<"s", "t", "o", "c", "k", "s", "_", "d", "a", "t", "a">> \o dot_xlsx

\* s[i..] starts with p
StartsWithAt(s, i, p) ==
    /\ i + Len(p) - 1 <= Len(s)
    /\ \A k \in 1 .. Len(p) : s[i + k - 1] = p[k]

\* str.replace(old, new) for a non-empty old: every non-overlapping occurrence,
\* found from the left, is replaced
RECURSIVE ReplaceFrom(_, _, _, _)
ReplaceFrom(s, i, old, new) ==
    IF i > Len(s) THEN <<>>
    ELSE IF StartsWithAt(s, i, old) THEN new \o ReplaceFrom(s, i + Len(old), old, new)
    ELSE <<s[i]>> \o ReplaceFrom(s, i + 1, old, new)

str_replace(s, old, new) == ReplaceFrom(s, 1, old, new)

\* the decimal digits of n, zero-padded to width w (strftime's %Y %m %d %H %M %S)
DigitChars == <<"0", "1", "2", "3", "4", "5", "6", "7", "8", "9">>
RECURSIVE Padded(_, _)
Padded(n, w) ==
    IF w = 0 THEN <<>> ELSE Padded(n \div 10, w - 1) \o <<DigitChars[(n % 10) + 1]>>

\* line 82: strftime("%Y%m%d%H%M%S")
strftime(t) ==
    Padded(t.Y, 4) \o Padded(t.m, 2) \o Padded(t.d, 2)
      \o Padded(t.H, 2) \o Padded(t.M, 2) \o Padded(t.S, 2)

\* line 83
final_filename(filename, t) ==
    str_replace(filename, dot_xlsx, <<"_">> \o strftime(t) \o dot_xlsx)

\* except ValueError in place of except Exception
Caught_ValueError(exc) == exc = "ValueError"

\* line 87: except Exception catches every error raised in the try block
Caught(exc) == exc \in {"AttributeError", "ValueError", "OSError"}

\* lines 81-88: the outcome of save_to_excel. A filename that is not a str has
\* no replace (AttributeError); convOk and writeOk say whether pandas builds
\* the table and writes the file.
SaveOutcome(filename, t, convOk, writeOk) ==
    LET exc == IF filename.type # "str" THEN "AttributeError"
               ELSE IF ~convOk THEN "ValueError"
               ELSE IF ~writeOk THEN "OSError"
               ELSE "none"
        name == IF filename.type = "str" THEN final_filename(filename.chars, t) ELSE <<>>
    IN  IF exc = "none"
          THEN [kind |-> "saved", name |-> name, exc |-> "none",
                lines |-> <<Line("INFO", "Data saved to")>>]
        ELSE IF Caught(exc)
          THEN [kind |-> "failed", name |-> name, exc |-> exc,
                lines |-> <<Line("ERROR", "Error saving data to Excel")>>]
        ELSE [kind |-> "raise", name |-> name, exc |-> exc, lines |-> <<>>]

\* the clock at the time of the call
Clock ==
    {[Y |-> 2024, m |-> 1, d |-> 2, H |-> 3, M |-> 4, S |-> 5],
     [Y |-> 2026, m |-> 11, d |-> 3, H |-> 14, M |-> 48, S |-> 59],
     [Y |-> 1999, m |-> 12, d |-> 31, H |-> 23, M |-> 0, S |-> 0]}

FileStr(cs) == [type |-> "str", chars |-> cs]
FileNone == [type |-> "NoneType", chars |-> <<>>]

\* lines 70-88: one call of save_to_excel
save_to_excel(data, filename) ==
    \E t \in Clock, convOk \in BOOLEAN, writeOk \in BOOLEAN :
        LET o == SaveOutcome(filename, t, convOk, writeOk) IN
        /\ saveCalls' = saveCalls + 1
        /\ saved' = [kind |-> o.kind, name |-> o.name, exc |-> o.exc,
                     base |-> filename, time |-> t, data |-> data]
        /\ log' = log \o o.lines
        /\ pc' = "done"

\* file names a caller passes: up to MaxPieces pieces, or the default, or None
Pieces == {<<"d">>, dot_xlsx, <<".", "x", "l", "s">>, <<".", "X", "L", "S", "X">>, <<"x">>}
RECURSIVE Concats(_)
Concats(k) ==
    IF k = 0 THEN {<<>>}
    ELSE LET shorter == Concats(k - 1) IN
         shorter \cup {c \o p : c \in shorter, p \in Pieces}
Filenames == {FileStr(cs) : cs \in Concats(MaxPieces) \cup {default_filename}} \cup {FileNone}

SaveData == {JVal("list", 1), JVal("dict", 1), JVal("list", 0), JVal("int", 0)}

\* a caller that imported the module calls save_to_excel
DirectSave ==
    /\ pc = "idle"
    /\ \E data \in SaveData, f \in Filenames :
         /\ caller' = "direct_save"
         /\ save_to_excel(data, f)
    /\ UNCHANGED <<API_KEY, args, passed, requests, resp, fetched>>

(* -------------------------------- main --------------------------------- *)
\* line 95: the fixed arguments of main's call
main_args ==
    [market |-> PyStr("USA"), limit |-> PyInt(DefaultLimit), date |-> PyStr("2024-01-02"),
     ticker |-> PyNone, scores |-> <<[key |-> "aiscore", value |-> 10]>>,
     hasScores |-> TRUE]

\* lines 94-95: main logs and calls the fetcher
MainStart ==
    /\ pc = "idle"
    /\ FetchCall(main_args, "main",
                 log \o <<Line("INFO", "Starting data retrieval process...")>>)

\* the test written "is not None or True": every result is exported
HasData_Always(stock_data) == TRUE

\* line 96: if stock_data
HasData(stock_data) == JTruthy(stock_data)

\* lines 96-99: main saves the data or logs that there is none
MainBranch ==
    /\ pc = "main_branch"
    /\ IF HasData(fetched.value)
         THEN save_to_excel(fetched.value, FileStr(default_filename))
         ELSE /\ log' = Append(log, Line("ERROR", "No data to save."))
              /\ pc' = "done"
              /\ UNCHANGED <<saveCalls, saved>>
    /\ UNCHANGED <<API_KEY, caller, args, passed, requests, resp, fetched>>

Next == Startup \/ DirectFetch \/ FetchResponse \/ DirectSave \/ MainStart \/ MainBranch



Spec == Init /\ [][Next]_vars

(* ------------------------------ properties ----------------------------- *)
AllChecks == <<"date_or_ticker", "market", "limit", "scores">>
FetcherCalled == caller \in {"main", "direct"}
Responded == resp.kind # "none"
ReturnedNone == fetched.kind = "return" /\ fetched.value = JNull
RaisedValueError ==
    /\ pc = "done"
    /\ fetched.kind = "raise"
    /\ fetched.exc = "ValueError"
    /\ requests = <<>>
Logged(level, msg) == \E i \in DOMAIN log : log[i] = Line(level, msg)
ErrorLogged == \E i \in DOMAIN log : log[i].level = "ERROR"
\* a Content-Type header value that denotes JSON, with or without parameters
DenotesJson(ctype) == ctype \in {"application/json", "application/json; charset=utf-8"}
NotSet(v) == v = PyNone \/ v = PyStr("")
RecognisedScores == {"aiscore", "fundamental", "technical", "sentiment"}
BadEntry(e) == e.key \notin RecognisedScores \/ e.value < 1 \/ e.value > 10

\* C1 as stated: after a non-200 status, a Content-Type that is not JSON or a
\* network failure, the fetcher has returned None and logged an error line.
C1_NonOkReturnsNone ==
    (Responded /\ (resp.kind = "network_error" \/ resp.status # 200 \/ ~DenotesJson(resp.ctype)))
      => (ReturnedNone /\ ErrorLogged)

\* C1 amended: after an error status (4xx or 5xx), a Content-Type that is not
\* JSON or a network failure, the fetcher has returned None (no exception) and
\* logged an error line.
C1_SoftFailure ==
    (Responded /\ (resp.kind = "network_error" \/ resp.status >= 400 \/ ~DenotesJson(resp.ctype)))
      => (ReturnedNone /\ ErrorLogged)

C1_Witness ==
    /\ resp.kind = "response" /\ resp.status = 404
    /\ resp.ctype = "application/json" /\ resp.body = "[{\"t\":1}]"
    /\ ReturnedNone /\ Logged("ERROR", "Error fetching data")

\* C2: after a success status with a Content-Type that denotes JSON and a body
\* that parses to a non-null value, the fetcher has returned that parsed value.
C2_JsonReturned ==
    (/\ Responded /\ resp.kind = "response"
     /\ resp.status >= 200 /\ resp.status < 300
     /\ DenotesJson(resp.ctype)
     /\ JsonParses(resp.body) /\ ParseJson(resp.body) # JNull)
      => (fetched.kind = "return" /\ fetched.value = ParseJson(resp.body))

\* C3 as stated: in a run of main, save_to_excel is invoked exactly when the
\* fetcher returned a non-null result; for a null result "No data to save." is
\* logged instead.
C3_SaveIffNonNull ==
    (caller = "main" /\ pc = "done" /\ fetched.kind = "return")
      => /\ (saveCalls = 1) <=> (fetched.value # JNull)
         /\ (fetched.value = JNull) => Logged("ERROR", "No data to save.")

\* C3 amended: in a run of main, save_to_excel is invoked exactly when the
\* fetcher returned a non-null, non-empty, non-zero result; otherwise it is
\* not invoked and "No data to save." is logged instead.
C3_SaveIffNonEmpty ==
    caller = "main" =>
      /\ saveCalls >= 1 =>
           (fetched.kind = "return" /\ fetched.value.type # "null" /\ fetched.value.size > 0)
      /\ (pc = "done" /\ fetched.kind = "return") =>
           IF fetched.value.type # "null" /\ fetched.value.size > 0
             THEN saveCalls = 1 /\ ~Logged("ERROR", "No data to save.")
             ELSE saveCalls = 0 /\ Logged("ERROR", "No data to save.")

C3_Witness ==
    /\ caller = "main" /\ pc = "done"
    /\ fetched.kind = "return" /\ fetched.value = JVal("list", 0)
    /\ saveCalls = 0 /\ Logged("ERROR", "No data to save.")

\* C4: a GET is sent only after start-up found a non-empty API key and after
\* all four validation checks passed; a call that raises a validation error
\* sends none, and a call that passes validation sends exactly one.
C4_RequestAfterValidation ==
    /\ Len(requests) <= 1
    /\ pc \in {"startup", "crashed"} => requests = <<>>
    /\ requests # <<>> =>
         /\ API_KEY.type = "str" /\ API_KEY.s # ""
         /\ requests[1].x_api_key = API_KEY.s
         /\ passed = AllChecks
         /\ ~(NotSet(args.date) /\ NotSet(args.ticker))
         /\ args.market \in {PyStr("USA"), PyStr("europe")}
         /\ \A i \in DOMAIN args.scores : ~BadEntry(args.scores[i])
    /\ (fetched.kind = "raise" /\ fetched.exc = "ValueError") => requests = <<>>
    /\ (FetcherCalled /\ passed = AllChecks) => Len(requests) = 1

C4_Witness ==
    /\ pc = "done" /\ caller = "direct" /\ Len(requests) = 1
    /\ Len(args.scores) = MaxScores /\ Responded

\* C5: a call with neither date nor ticker set raises a validation error,
\* whatever market, limit and scores are.
C5_DateOrTickerRequired ==
    (FetcherCalled /\ NotSet(args.date) /\ NotSet(args.ticker)) => RaisedValueError

C5_Witness ==
    /\ caller = "direct" /\ args.date = PyStr("") /\ args.ticker = PyStr("")
    /\ args.market = PyStr("USA") /\ args.limit = PyInt(DefaultLimit) /\ ~args.hasScores
    /\ RaisedValueError

\* C6: a call whose scores mapping holds an unrecognised key or a value
\* outside 1..10, at any position, raises a validation error.
C6_ScoresValidated ==
    (FetcherCalled /\ \E i \in DOMAIN args.scores : BadEntry(args.scores[i]))
      => RaisedValueError

C6_Witness ==
    /\ caller = "direct" /\ passed = <<"date_or_ticker", "market", "limit">>
    /\ Len(args.scores) = 2
    /\ ~BadEntry(args.scores[1]) /\ BadEntry(args.scores[2])
    /\ RaisedValueError

\* C7: a call whose limit is not an integer (a boolean, a float, a string,
\* None) or is not positive raises a validation error.
C7_LimitValidated ==
    (FetcherCalled /\ (args.limit.type # "int" \/ args.limit.n <= 0)) => RaisedValueError

\* C8: a call whose market is not exactly 'USA' or 'europe' raises a
\* validation error.
C8_MarketValidated ==
    (FetcherCalled /\ args.market \notin {PyStr("USA"), PyStr("europe")}) => RaisedValueError

C8_Witness ==
    /\ caller = "direct" /\ args.market = PyStr("usa")
    /\ passed = <<"date_or_ticker">> /\ RaisedValueError

\* the position of the last "." of s, or Len(s) + 1 when s has none
ExtensionStart(s) ==
    IF \E i \in DOMAIN s : s[i] = "."
      THEN CHOOSE i \in DOMAIN s : s[i] = "." /\ \A j \in DOMAIN s : s[j] = "." => j <= i
      ELSE Len(s) + 1
\* s with "_" and the 14 digits inserted once, immediately before the extension
Stamped(s, digits) ==
    SubSeq(s, 1, ExtensionStart(s) - 1) \o <<"_">> \o digits
      \o SubSeq(s, ExtensionStart(s), Len(s))

\* C9: the file written is named as the base name with "_" and the 14-digit
\* timestamp of the call inserted exactly once, immediately before the
\* extension; stated here for the base names that end in ".xlsx", which the
\* writer accepts.
C9_TimestampedName ==
    (/\ saved.kind = "saved" /\ saved.base.type = "str"
     /\ Len(saved.base.chars) > Len(dot_xlsx)
     /\ StartsWithAt(saved.base.chars, Len(saved.base.chars) - Len(dot_xlsx) + 1, dot_xlsx))
      => /\ Len(strftime(saved.time)) = 14
         /\ saved.name = Stamped(saved.base.chars, strftime(saved.time))

\* C10: a failure inside save_to_excel is caught and logged; the call returns
\* to its caller and the run ends normally.
C10_ExportNeverRaises ==
    saveCalls >= 1 =>
      /\ saved.kind \in {"saved", "failed"}
      /\ saved.kind = "failed" => Logged("ERROR", "Error saving data to Excel")
      /\ pc = "done"

C10_Witness ==
    /\ caller = "main" /\ saveCalls = 1
    /\ saved.kind = "failed" /\ saved.exc = "OSError"
    /\ Logged("ERROR", "Error saving data to Excel")
====
